---- MODULE Spec2Model ----
(***************************************************************************)
(* Collection<T> of src/src/utils/store.ts: a document store kept as one   *)
(* array under one key of chrome.storage.local.  Every public operation is *)
(* an async function; the code between two awaits runs atomically, so an   *)
(* operation is modelled by one action per segment:                        *)
(*   create, read, ...  the synchronous prefix up to the first await      *)
(*   GetResolve         the store answers the get, the continuation runs   *)
(*   SetResolve         the store applies the set, the continuation returns*)
(*   GetReject,         the store calls back with chrome.runtime.lastError, *)
(*   SetReject          the catch block of the operation returns            *)
(***************************************************************************)
EXTENDS Integers, Sequences, FiniteSets, TLC

VARIABLES store, version, calls, ctor, now, nextId

vars == <<store, version, calls, ctor, now, nextId>>

----------------------------------------------------------------------------
(* Bounds of the model *)

MaxCalls == 2
MaxId == 2
MaxClock == 1
MaxWrites == 3
MaxBatch == 11
MaxInstances == 2

(* Program constants *)

DefaultLimit == 10
DefaultSkip == 0

CallIds == 1..MaxCalls

\* the Collection objects constructed for the key "users"
Instances == 1..MaxInstances

----------------------------------------------------------------------------
(* Values *)

\* result[key] of chrome.storage.local.get when the key is unset
Absent == [present |-> FALSE, docs |-> <<>>]
Stored(arr) == [present |-> TRUE, docs |-> arr]

\* T | null, T[] | null : <<>> is null, <<v>> is the value v
Null == <<>>
Some(v) == <<v>>

NoQuery == [k \in {} |-> 0]

Fields == {"username", "role", "posted", "verified"}
Roles == {"admin", "user"}

User(u, r, p, v) ==
  ("username" :> u) @@ ("role" :> r) @@ ("posted" :> p) @@ ("verified" :> v)

Has(d, k) == k \in DOMAIN d

Min(a, b) == IF a < b THEN a ELSE b
Max(a, b) == IF a < b THEN b ELSE a

----------------------------------------------------------------------------
(* userSchema, zod safeParse *)

\* a schema that accepts every value
SchemaAny(d) == TRUE

\* validate.success of userSchema.safeParse(d)
SchemaOk(d) ==
  /\ Fields \subseteq DOMAIN d
  /\ d["role"] \in Roles
  /\ d["posted"] \in Int
  /\ d["verified"] \in BOOLEAN

\* validate.data: z.object strips the keys the schema does not name
Parsed(d) == [k \in Fields |-> d[k]]

\* an array check that looks at the first element only
ArrayOkFirst(batch) == batch = <<>> \/ SchemaOk(batch[1])

\* validate.success of userSchema.array().safeParse(batch)
ArrayOk(batch) == \A i \in 1..Len(batch) : SchemaOk(batch[i])

\* validate.error.issues.map(issue => issue.message).join(", ")
IssueMessage == "validation issues"

----------------------------------------------------------------------------
(* Response envelope *)

NoCount == -1

Resp(data, count, status, errors, message) ==
  [data |-> data, count |-> count, status |-> status, errors |-> errors,
   message |-> message]

NoResp == Resp(<<>>, NoCount, "", "", "")

BadRequest == Resp(<<>>, NoCount, "error", "bad-request", "Data is required")
NotFound == Resp(<<>>, NoCount, "error", "not-found", "Document not found.")

\* a catch block that labels what it caught
CaughtServerError(message) ==
  Resp(<<>>, NoCount, "error", "server-error", message)

\* a catch block that throws the error on to the caller
Rethrown(message) == Resp(<<>>, NoCount, "thrown", "", message)

\* a catch block that reports what it caught as a missing document
CaughtNotFound(message) == Resp(<<>>, NoCount, "error", "not-found", message)

\* catch (error) { return { data: null, status: "error", message: error.message } }
Caught(message) == Resp(<<>>, NoCount, "error", "", message)

----------------------------------------------------------------------------
(* Flat matching of read / update / remove *)

\* a === b for numbers, strings and booleans: values of two types differ
StrictEq(a, b) == ToString(a) = ToString(b)

\* a match that is content with one equal field
QueryMatchSome(item, query) ==
  \E k \in DOMAIN query : Has(item, k) /\ StrictEq(item[k], query[k])

\* Object.entries(query).every(([key, value]) => item[key] === value); the
\* stored documents hold numbers, strings and booleans, so that a query value
\* that is an object equals none of them
QueryMatch(item, query) ==
  \A k \in DOMAIN query : Has(item, k) /\ StrictEq(item[k], query[k])

\* a search that falls back on the first element when nothing matches
FindIndexOrFirst(state, query) ==
  IF \E i \in 1..Len(state) : QueryMatch(state[i], query)
  THEN CHOOSE i \in 1..Len(state) :
         /\ QueryMatch(state[i], query)
         /\ \A j \in 1..(i - 1) : ~QueryMatch(state[j], query)
  ELSE IF state = <<>> THEN 0 ELSE 1

\* a search that takes the last match
FindLastIndex(state, query) ==
  IF \E i \in 1..Len(state) : QueryMatch(state[i], query)
  THEN CHOOSE i \in 1..Len(state) :
         /\ QueryMatch(state[i], query)
         /\ \A j \in (i + 1)..Len(state) : ~QueryMatch(state[j], query)
  ELSE 0

\* state.findIndex(...), 0 standing for -1
FindIndex(state, query) ==
  IF \E i \in 1..Len(state) : QueryMatch(state[i], query)
  THEN CHOOSE i \in 1..Len(state) :
         /\ QueryMatch(state[i], query)
         /\ \A j \in 1..(i - 1) : ~QueryMatch(state[j], query)
  ELSE 0

\* a splice that drops the first element whatever the index
SpliceFirst(state, index) == Tail(state)

\* a splice that drops the last element whatever the index
SpliceLast(state, index) == SubSeq(state, 1, Len(state) - 1)

\* state.splice(index, 1)
Splice(state, index) ==
  [i \in 1..(Len(state) - 1) |-> IF i < index THEN state[i] ELSE state[i + 1]]

\* a merge with the spreads the wrong way round: { ...data, ...state[index] }
MergeKeep(doc, data, updatedAt) ==
  [k \in DOMAIN doc \cup DOMAIN data \cup {"_updatedAt"} |->
     IF k = "_updatedAt" THEN updatedAt
     ELSE IF Has(doc, k) THEN doc[k] ELSE data[k]]

\* { ...state[index], ...data, _updatedAt }
Merge(doc, data, updatedAt) ==
  [k \in DOMAIN doc \cup DOMAIN data \cup {"_updatedAt"} |->
     IF k = "_updatedAt" THEN updatedAt
     ELSE IF Has(data, k) THEN data[k] ELSE doc[k]]

\* a transform that reads the clock again for _updatedAt
TransformLate(d, id, createdAt) ==
  [k \in DOMAIN d \cup {"_id", "_createdAt", "_updatedAt"} |->
     IF k = "_id" THEN id
     ELSE IF k = "_createdAt" THEN createdAt
     ELSE IF k = "_updatedAt" THEN createdAt + 1
     ELSE d[k]]

\* { ...validate.data, _id, _createdAt, _updatedAt }
Transform(d, id, createdAt) ==
  [k \in DOMAIN d \cup {"_id", "_createdAt", "_updatedAt"} |->
     IF k = "_id" THEN id
     ELSE IF k \in {"_createdAt", "_updatedAt"} THEN createdAt
     ELSE d[k]]

----------------------------------------------------------------------------
(* Condition trees of readMany *)

\* A condition is the sequence of its entries, in iteration order.  An entry
\* is a plain value (kind "direct"), an operator object (kind "ops", the
\* sequence of its <<operator, value>> pairs) or, under a field that starts
\* with "$", a list of conditions (kind "logical").
Direct(field, value) ==
  [field |-> field, kind |-> "direct", value |-> value, ops |-> <<>>,
   conds |-> <<>>]
Ops(field, ops) ==
  [field |-> field, kind |-> "ops", value |-> 0, ops |-> ops, conds |-> <<>>]
Logical(field, conds) ==
  [field |-> field, kind |-> "logical", value |-> 0, ops |-> <<>>,
   conds |-> conds]

\* one operator of an operator object; a missing field reads undefined, and
\* undefined <= v and undefined >= v are both false
OperatorOk(document, field, operator, value) ==
  CASE operator = "$gt" -> ~(Has(document, field) /\ document[field] <= value)
    [] operator = "$lt" -> ~(Has(document, field) /\ document[field] >= value)
    [] operator = "$eq" -> Has(document, field) /\ document[field] = value
    [] OTHER -> TRUE

RECURSIVE match(_, _)
match(document, condition) ==
  \A e \in 1..Len(condition) :
    LET entry == condition[e] IN
    CASE entry.kind = "logical" ->
           ( CASE entry.field = "$or" ->
                    \E i \in 1..Len(entry.conds) : match(document, entry.conds[i])
               [] entry.field = "$and" ->
                    \A i \in 1..Len(entry.conds) : match(document, entry.conds[i])
               [] entry.field = "$not" ->
                    ~\E i \in 1..Len(entry.conds) : match(document, entry.conds[i])
               [] OTHER -> TRUE )
      [] entry.kind = "ops" ->
           \A o \in 1..Len(entry.ops) :
             OperatorOk(document, entry.field, entry.ops[o][1], entry.ops[o][2])
      [] OTHER ->
           Has(document, entry.field) /\ document[entry.field] = entry.value

\* state.filter(document => where.some(condition => match(document, condition)))
RECURSIVE Filter(_, _)
Filter(state, where) ==
  IF state = <<>> THEN <<>>
  ELSE LET rest == Filter(Tail(state), where) IN
       IF \E i \in 1..Len(where) : match(Head(state), where[i])
       THEN <<Head(state)>> \o rest
       ELSE rest

\* a comparator that takes every order for "asc"
RECURSIVE CompareAsc(_, _, _)
CompareAsc(a, b, orderBy) ==
  IF orderBy = <<>> THEN 0
  ELSE LET key == Head(orderBy)[1]
           both == Has(a, key) /\ Has(b, key)
       IN  IF both /\ a[key] < b[key] THEN -1
           ELSE IF both /\ a[key] > b[key] THEN 1
           ELSE CompareAsc(a, b, Tail(orderBy))

\* the comparator handed to sort: the first key that differs decides
RECURSIVE Compare(_, _, _)
Compare(a, b, orderBy) ==
  IF orderBy = <<>> THEN 0
  ELSE LET key == Head(orderBy)[1]
           order == Head(orderBy)[2]
           both == Has(a, key) /\ Has(b, key)
       IN  IF both /\ a[key] < b[key] THEN (IF order = "asc" THEN -1 ELSE 1)
           ELSE IF both /\ a[key] > b[key] THEN (IF order = "asc" THEN 1 ELSE -1)
           ELSE Compare(a, b, Tail(orderBy))

\* a sort that puts x in front of the elements it compares equal to
RECURSIVE InsertUnstable(_, _, _)
InsertUnstable(x, sorted, orderBy) ==
  IF sorted = <<>> THEN <<x>>
  ELSE IF Compare(x, Head(sorted), orderBy) <= 0 THEN <<x>> \o sorted
  ELSE <<Head(sorted)>> \o InsertUnstable(x, Tail(sorted), orderBy)

\* Array.prototype.sort is stable: x goes behind every element it does not
\* precede
RECURSIVE Insert(_, _, _)
Insert(x, sorted, orderBy) ==
  IF sorted = <<>> THEN <<x>>
  ELSE IF Compare(x, Head(sorted), orderBy) < 0 THEN <<x>> \o sorted
  ELSE <<Head(sorted)>> \o Insert(x, Tail(sorted), orderBy)

RECURSIVE SortBy(_, _)
SortBy(result, orderBy) ==
  IF result = <<>> THEN <<>>
  ELSE Insert(result[Len(result)], SortBy(SubSeq(result, 1, Len(result) - 1), orderBy),
              orderBy)

\* a slice that forgets the end
SliceOpen(result, start, end) == SubSeq(result, start + 1, Len(result))

\* result.slice(start, end) for 0 <= start <= end
Slice(result, start, end) == SubSeq(result, start + 1, Min(end, Len(result)))

Undefined == -1

NoWhere == [kind |-> "none", conds |-> <<>>]
Where(condition) == [kind |-> "one", conds |-> <<condition>>]
WhereAny(conditions) == [kind |-> "many", conds |-> conditions]

Queries(where, orderBy, limit, skip) ==
  [where |-> where, orderBy |-> orderBy, limit |-> limit, skip |-> skip]

NoQueries == Queries(NoWhere, <<>>, Undefined, Undefined)

\* limit || 10, skip || 0
LimitOr(limit) == IF limit = Undefined \/ limit = 0 THEN DefaultLimit ELSE limit
SkipOr(skip) == IF skip = Undefined \/ skip = 0 THEN DefaultSkip ELSE skip

\* a readMany that sorts and cuts the array also when where is omitted
ReadManyPaged(state, queries) ==
  LET filtered == IF queries.where.kind # "none"
                  THEN Filter(state, queries.where.conds) ELSE state
      sorted == IF queries.orderBy # <<>>
                THEN SortBy(filtered, queries.orderBy) ELSE filtered
      s == SkipOr(queries.skip)
  IN  Slice(sorted, s, s + LimitOr(queries.limit))

\* the data readMany returns for the loaded array
ReadManyData(state, queries) ==
  IF queries.where.kind # "none"
  THEN LET filtered == Filter(state, queries.where.conds)
           sorted == IF queries.orderBy # <<>>
                     THEN SortBy(filtered, queries.orderBy) ELSE filtered
           s == SkipOr(queries.skip)
       IN  Slice(sorted, s, s + LimitOr(queries.limit))
  ELSE state

----------------------------------------------------------------------------
(* State *)

\* One record per call slot.  pc is the await the call is suspended at
\* ("get", "set"), "done" once it has returned resp, "idle" before its first
\* use.  made is `transformed` (create, createMany) or `deleted` (remove),
\* local is the array `state` after the call has changed it, loaded the
\* value the get resolved with.  lver and wver are the store versions the
\* call loaded and wrote (-1: none).
IdleCall ==
  [pc |-> "idle", op |-> "none", arg |-> Null, query |-> NoQuery,
   queries |-> NoQueries, made |-> <<>>, local |-> <<>>, index |-> 0,
   loaded |-> Absent, lver |-> -1, wver |-> -1, resp |-> NoResp]

Free(c) == calls[c].pc \in {"idle", "done"}

Begin(op, arg, query, queries) ==
  [IdleCall EXCEPT !.op = op, !.arg = arg, !.query = query,
                   !.queries = queries]

\* a call that never settles: its promise stays pending
ReturnNever(call, resp) == [call EXCEPT !.pc = "hung"]

\* the call returns resp; its locals are gone, what it was asked and which
\* store versions it saw and made stay on record
Return(call, resp) ==
  [IdleCall EXCEPT !.pc = "done", !.op = call.op, !.arg = call.arg,
                   !.query = call.query, !.queries = call.queries,
                   !.lver = call.lver, !.wver = call.wver, !.resp = resp]

\* new Date().toISOString(): the clock never runs backwards
ClockValues == now..Min(now + 1, MaxClock)

Mutating == {"create", "createMany", "update", "remove"}

\* store writes that calls already under way may still issue
Pending ==
  Cardinality({c \in CallIds : calls[c].pc \in {"get", "set"}
                               /\ calls[c].op \in Mutating})
  + Cardinality({i \in Instances : ctor[i] \in {"get", "set"}})

Init ==
  /\ store = Absent
  /\ version = 0
  /\ calls = [c \in CallIds |-> IdleCall]
  /\ ctor = [i \in Instances |-> IF i = 1 THEN "get" ELSE "none"]
  /\ now = 0
  /\ nextId = 1

----------------------------------------------------------------------------
(* createCollection, started by the constructor and never awaited.  ctor[i] *)
(* is where the createCollection of instance i stands: "none" before the    *)
(* instance is constructed, "get" and "set" at its two awaits, "done" once  *)
(* it has returned, "failed" once it has thrown.  Instance 1 is             *)
(* userCollection, constructed when the module is loaded.                   *)

\* new Collection("users", userSchema) in another script of the extension
Construct(i) ==
  /\ ctor[i] = "none"
  /\ ctor' = [ctor EXCEPT ![i] = "get"]
  /\ UNCHANGED <<store, version, calls, now, nextId>>

\* const collection = await chrome.storage.local.get(key);
\* if (!collection[key]) ...
CreateCollectionGet(i) ==
  /\ ctor[i] = "get"
  /\ ctor' = [ctor EXCEPT ![i] = IF ~store.present THEN "set" ELSE "done"]
  /\ UNCHANGED <<store, version, calls, now, nextId>>

\* await chrome.storage.local.set({ [key]: [] })
CreateCollectionSet(i) ==
  /\ ctor[i] = "set"
  /\ store' = Stored(<<>>)
  /\ version' = version + 1
  /\ ctor' = [ctor EXCEPT ![i] = "done"]
  /\ UNCHANGED <<calls, now, nextId>>

----------------------------------------------------------------------------
(* The synchronous prefix of each operation *)

create(c, data) ==
  /\ Free(c)
  /\ IF data = Null
     THEN /\ calls' = [calls EXCEPT ![c] =
                         Return(Begin("create", data, NoQuery, NoQueries),
                                BadRequest)]
          /\ UNCHANGED <<now, nextId>>
     ELSE IF ~SchemaOk(data[1])
     THEN /\ calls' = [calls EXCEPT ![c] =
                         Return(Begin("create", data, NoQuery, NoQueries),
                                Caught(IssueMessage))]
          /\ UNCHANGED <<now, nextId>>
     ELSE \E t \in ClockValues :
          /\ now' = t
          /\ nextId' = nextId + 1
          /\ calls' = [calls EXCEPT ![c] =
                         [Begin("create", data, NoQuery, NoQueries) EXCEPT
                            !.pc = "get",
                            !.made = <<Transform(Parsed(data[1]), nextId, t)>>]]
  /\ UNCHANGED <<store, version, ctor>>

read(c, query) ==
  /\ Free(c)
  /\ calls' = [calls EXCEPT ![c] =
                 [Begin("read", Null, query, NoQueries) EXCEPT !.pc = "get"]]
  /\ UNCHANGED <<store, version, ctor, now, nextId>>

update(c, query, data) ==
  /\ Free(c)
  /\ calls' = [calls EXCEPT ![c] =
                 [Begin("update", Some(data), query, NoQueries) EXCEPT
                    !.pc = "get"]]
  /\ UNCHANGED <<store, version, ctor, now, nextId>>

remove(c, query) ==
  /\ Free(c)
  /\ calls' = [calls EXCEPT ![c] =
                 [Begin("remove", Null, query, NoQueries) EXCEPT !.pc = "get"]]
  /\ UNCHANGED <<store, version, ctor, now, nextId>>

\* a map that draws one _id for the whole batch
TransformAllOneId(batch, firstId, createdAt) ==
  [i \in 1..Len(batch) |-> Transform(Parsed(batch[i]), firstId, createdAt)]

\* validate.data.map(item => ({ ...item, _id: uuidv4(), _createdAt, _updatedAt }))
TransformAll(batch, firstId, createdAt) ==
  [i \in 1..Len(batch) |-> Transform(Parsed(batch[i]), firstId + i - 1, createdAt)]

createMany(c, data) ==
  /\ Free(c)
  /\ IF data = Null
     THEN /\ calls' = [calls EXCEPT ![c] =
                         Return(Begin("createMany", data, NoQuery, NoQueries),
                                BadRequest)]
          /\ UNCHANGED <<now, nextId>>
     ELSE IF ~ArrayOk(data[1])
     THEN /\ calls' = [calls EXCEPT ![c] =
                         Return(Begin("createMany", data, NoQuery, NoQueries),
                                Caught(IssueMessage))]
          /\ UNCHANGED <<now, nextId>>
     ELSE \E t \in ClockValues :
          /\ now' = t
          /\ nextId' = nextId + Len(data[1])
          /\ calls' = [calls EXCEPT ![c] =
                         [Begin("createMany", data, NoQuery, NoQueries) EXCEPT
                            !.pc = "get",
                            !.made = TransformAll(data[1], nextId, t)]]
  /\ UNCHANGED <<store, version, ctor>>

readMany(c, queries) ==
  /\ Free(c)
  /\ calls' = [calls EXCEPT ![c] =
                 [Begin("readMany", Null, NoQuery, queries) EXCEPT !.pc = "get"]]
  /\ UNCHANGED <<store, version, ctor, now, nextId>>

----------------------------------------------------------------------------
(* Continuations *)

\* what a method call on the undefined `state` throws, caught by the catch
TypeErrorMessage == "Cannot read properties of undefined"

\* an unshift where the push should be
PushFront(state, transformed) == transformed \o state

\* state.push(...transformed)
Push(state, transformed) == state \o transformed

\* an assignment that is dropped when the merged document fails the schema
AssignValid(state, index, data, updatedAt) ==
  IF SchemaOk(Merge(state[index], data, updatedAt))
  THEN [state EXCEPT ![index] = Merge(state[index], data, updatedAt)]
  ELSE state

\* an assignment that always goes to the first element
AssignFirst(state, index, data, updatedAt) ==
  [state EXCEPT ![1] = Merge(state[index], data, updatedAt)]

\* state[index] = { ...state[index], ...data, _updatedAt }
Assign(state, index, data, updatedAt) ==
  [state EXCEPT ![index] = Merge(state[index], data, updatedAt)]

\* the response of read for the loaded array
ReadResp(state, query) ==
  LET index == FindIndex(state, query) IN
  IF index = 0 THEN NotFound
  ELSE Resp(<<state[index]>>, 1, "ok", "", "Document retrieved successfully.")

\* the response of readMany for the loaded array
ReadManyResp(state, queries) ==
  LET result == ReadManyData(state, queries) IN
  Resp(result, Len(result), "ok", "", "Documents retrieved successfully.")

\* Collection.get resolves with result[key]; the code up to the next await or
\* return runs
GetResolve(c) ==
  LET call == [calls[c] EXCEPT !.loaded = store, !.lver = version]
      state == store.docs
      index == FindIndex(state, call.query)
  IN
  /\ calls[c].pc = "get"
  /\ IF ~store.present
     THEN /\ calls' = [calls EXCEPT ![c] = Return(call, Caught(TypeErrorMessage))]
          /\ now' = now
     ELSE CASE call.op \in {"create", "createMany"} ->
                 /\ calls' = [calls EXCEPT ![c] =
                                [call EXCEPT !.pc = "set",
                                             !.local = Push(state, call.made)]]
                 /\ now' = now
            [] call.op = "read" ->
                 /\ calls' = [calls EXCEPT ![c] =
                                Return(call, ReadResp(state, call.query))]
                 /\ now' = now
            [] call.op = "update" ->
                 IF index = 0
                 THEN /\ calls' = [calls EXCEPT ![c] = Return(call, NotFound)]
                      /\ now' = now
                 ELSE \E t \in ClockValues :
                      /\ now' = t
                      /\ calls' = [calls EXCEPT ![c] =
                                     [call EXCEPT
                                        !.pc = "set",
                                        !.index = index,
                                        !.local = Assign(state, index,
                                                         call.arg[1], t)]]
            [] call.op = "remove" ->
                 /\ IF index = 0
                    THEN calls' = [calls EXCEPT ![c] = Return(call, NotFound)]
                    ELSE calls' = [calls EXCEPT ![c] =
                                     [call EXCEPT
                                        !.pc = "set",
                                        !.index = index,
                                        !.made = <<state[index]>>,
                                        !.local = Splice(state, index)]]
                 /\ now' = now
            [] call.op = "readMany" ->
                 /\ calls' = [calls EXCEPT ![c] =
                                Return(call, ReadManyResp(state, call.queries))]
                 /\ now' = now
  /\ UNCHANGED <<store, version, ctor, nextId>>

\* a set that is handed the array as it was loaded
WrittenLoaded(call) == call.loaded

\* the value Collection.set(this.collectionKey, state) puts under the key
Written(call) == Stored(call.local)

\* the response returned after the set has resolved
SetResp(call) ==
  CASE call.op = "create" ->
         Resp(call.made, 1, "ok", "", "Document created successfully.")
    [] call.op = "update" ->
         Resp(<<call.local[call.index]>>, 1, "ok", "",
              "Document updated successfully.")
    [] call.op = "remove" ->
         Resp(call.made, NoCount, "ok", "", "Document removed successfully.")
    [] call.op = "createMany" ->
         Resp(call.made, Len(call.made), "ok", "",
              "Documents created successfully.")

\* chrome.storage.local.set stores the value and calls back
SetResolve(c) ==
  /\ calls[c].pc = "set"
  /\ store' = Written(calls[c])
  /\ version' = version + 1
  /\ calls' = [calls EXCEPT ![c] =
                 Return([calls[c] EXCEPT !.wver = version + 1],
                        SetResp(calls[c]))]
  /\ UNCHANGED <<ctor, now, nextId>>

----------------------------------------------------------------------------
(* The store fails: chrome.runtime.lastError is set when it calls back *)

\* chrome.runtime.lastError.message
LastErrorMessage == "lastError"

\* a mutating operation that goes on to its set, with an empty array, after
\* its get has rejected
GetRejectGoOn(c) ==
  /\ calls[c].pc = "get"
  /\ calls' = [calls EXCEPT ![c] =
                 IF calls[c].op \in Mutating
                 THEN [calls[c] EXCEPT !.pc = "set", !.local = calls[c].made]
                 ELSE Return(calls[c], Caught(LastErrorMessage))]
  /\ UNCHANGED <<store, version, ctor, now, nextId>>

\* Collection.get rejects; the catch block of the operation returns
GetReject(c) ==
  /\ calls[c].pc = "get"
  /\ calls' = [calls EXCEPT ![c] = Return(calls[c], Caught(LastErrorMessage))]
  /\ UNCHANGED <<store, version, ctor, now, nextId>>

\* a store that has put the value under the key when it reports the error
RejectedWritten(old, call) == Written(call)

\* the value under the key after a set that called back with lastError
Rejected(old, call) == old

\* Collection.set rejects; the catch block of the operation returns
SetReject(c) ==
  /\ calls[c].pc = "set"
  /\ store' = Rejected(store, calls[c])
  /\ calls' = [calls EXCEPT ![c] = Return(calls[c], Caught(LastErrorMessage))]
  /\ UNCHANGED <<version, ctor, now, nextId>>

\* the get or the set of createCollection rejects: throw new Error(error) in
\* a promise that nobody awaits
CreateCollectionReject(i) ==
  /\ ctor[i] \in {"get", "set"}
  /\ ctor' = [ctor EXCEPT ![i] = "failed"]
  /\ UNCHANGED <<store, version, calls, now, nextId>>

----------------------------------------------------------------------------
(* Inputs *)

Ann == User("ann", "admin", 1, TRUE)
Bob == User("bob", "user", 3, FALSE)
Cat == User("cat", "admin", 2, TRUE) @@ ("note" :> "x")
Eve == User("eve", "guest", 1, TRUE)

DataInputs == {Null, Some(Ann), Some(Cat), Some(Eve)}
BatchInputs == {Null, Some(<<Ann, Cat>>), Some(<<Ann, Eve>>)}
QueryInputs == {"role" :> "admin"} \cup {"_id" :> k : k \in 1..MaxId}
PatchInputs == {"role" :> "user", "posted" :> 7}

RoleIs(r) == <<Direct("role", r)>>
AdminOrUser == <<Logical("$or", <<RoleIs("admin"), RoleIs("user")>>)>>
PostedDesc == <<<<"posted", "desc">>>>

QueriesInputs ==
  { NoQueries,
    Queries(NoWhere, PostedDesc, 2, 1),
    Queries(Where(RoleIs("admin")), <<>>, Undefined, Undefined) }

\* a call that may write is started only while a write is left for it
WriteLeft(max) == version + Pending < max

\* an _id is drawn only while one is left
IdLeft(max) == nextId' <= max + 1

\* the caller awaits each call before it issues the next
Awaited == \A c \in CallIds : Free(c)

----------------------------------------------------------------------------
(* One caller that awaits every call.  It keeps the response of its latest   *)
(* mutating call in the first slot and that of its latest reading call in   *)
(* the last one.                                                            *)

\* the slots the awaiting caller uses
Writer(c) == c = Min(1, MaxCalls) /\ Awaited
Reader(c) == c = MaxCalls /\ Awaited

Mutate(c) ==
  \/ \E data \in DataInputs :
       Writer(c) /\ create(c, data) /\ WriteLeft(MaxWrites) /\ IdLeft(MaxId)
  \/ \E query \in QueryInputs, data \in PatchInputs :
       Writer(c) /\ update(c, query, data) /\ WriteLeft(MaxWrites)
  \/ \E query \in QueryInputs :
       Writer(c) /\ remove(c, query) /\ WriteLeft(MaxWrites)
  \/ \E data \in BatchInputs :
       Writer(c) /\ createMany(c, data) /\ WriteLeft(MaxWrites) /\ IdLeft(MaxId)

Query(c) ==
  \/ \E query \in QueryInputs : Reader(c) /\ read(c, query)
  \/ \E queries \in QueriesInputs : Reader(c) /\ readMany(c, queries)

Next ==
  \/ \E i \in Instances : CreateCollectionGet(i)
  \/ \E i \in Instances : CreateCollectionSet(i)
  \/ \E c \in CallIds : Mutate(c)
  \/ \E c \in CallIds : Query(c)
  \/ \E c \in CallIds : GetResolve(c)
  \/ \E c \in CallIds : SetResolve(c)

Spec == Init /\ [][Next]_vars

----------------------------------------------------------------------------
(* Calls issued without awaiting the one before, on a collection that the   *)
(* awaiting caller has filled with createMany([ann, cat])                   *)

RaceWrites == 2

Filled == TransformAll(<<Ann, Cat>>, 1, 0)

\* the state Spec is in after CreateCollectionGet, CreateCollectionSet and a
\* createMany of ann and cat at time 0
InitRace ==
  /\ store = Stored(Filled)
  /\ version = 2
  /\ calls = [c \in CallIds |->
                IF c = 1
                THEN [Return(Begin("createMany", Some(<<Ann, Cat>>), NoQuery,
                                   NoQueries),
                             Resp(Filled, 2, "ok", "",
                                  "Documents created successfully."))
                        EXCEPT !.lver = 1, !.wver = 2]
                ELSE IdleCall]
  /\ ctor = [i \in Instances |-> IF i = 1 THEN "done" ELSE "none"]
  /\ now = 0
  /\ nextId = 3

\* update({_id: 1}, {role: "user"}), update({_id: 2}, {posted: 7}) and
\* remove({_id: 1}): the targets are the documents the collection starts with
RaceUpdates == {<<"_id" :> 1, "role" :> "user">>, <<"_id" :> 2, "posted" :> 7>>}
RaceRemoves == {"_id" :> 1}

\* writes and _ids left to the racing calls
RaceWriteLeft == WriteLeft(2 + RaceWrites)
RaceIdLeft == IdLeft(2 + RaceWrites)

InvokeRace(c) ==
  \/ \E data \in {Some(Ann)} : create(c, data) /\ RaceWriteLeft /\ RaceIdLeft
  \/ \E data \in {Some(<<Cat>>)} :
       createMany(c, data) /\ RaceWriteLeft /\ RaceIdLeft
  \/ \E u \in RaceUpdates : update(c, u[1], u[2]) /\ RaceWriteLeft
  \/ \E query \in RaceRemoves : remove(c, query) /\ RaceWriteLeft

NextRace ==
  \/ \E c \in CallIds : InvokeRace(c)
  \/ \E c \in CallIds : GetResolve(c)
  \/ \E c \in CallIds : SetResolve(c)

SpecRace == InitRace /\ [][NextRace]_vars

\* InitRace is a state of Spec
InitRaceReached ==
  /\ store = Stored(Filled) /\ version = 2 /\ ctor[1] = "done" /\ now = 0
  /\ nextId = 3
  /\ calls[1].pc = "done" /\ calls[1].op = "createMany"
  /\ calls[1].lver = 1 /\ calls[1].wver = 2
  /\ calls[MaxCalls] = IdleCall

----------------------------------------------------------------------------
(* readMany over arrays of up to MaxBatch documents: the awaiting caller    *)
(* fills the collection with one createMany and queries it                  *)

QueryWrites == 2

\* n documents, ann, bob, cat, ann, ... from the k-th of the three on
Cycle(n, k) ==
  [i \in 1..n |-> CASE (i + k) % 3 = 1 -> Ann
                    [] (i + k) % 3 = 2 -> Bob
                    [] OTHER -> Cat]

QueryBatches ==
  {<<>>, <<Bob>>, <<Cat, Ann>>, <<Ann, Bob, Cat>>, <<Bob, Ann, Ann>>}
  \cup {Cycle(MaxBatch, k) : k \in 0..2}
  \cup {[i \in 1..MaxBatch |-> Ann]}

\* {$and: [{role: "admin"}, {posted: {$gt: 1, $lt: 3}}],
\*  $not: [{verified: false}], posted: {$eq: 2}}
AdminPostedTwo ==
  << Logical("$and", <<RoleIs("admin"),
                       <<Ops("posted", <<<<"$gt", 1>>, <<"$lt", 3>>>>)>>>>),
     Logical("$not", <<<<Direct("verified", FALSE)>>>>),
     Ops("posted", <<<<"$eq", 2>>>>) >>

ManyInputs ==
  { NoQueries,
    Queries(NoWhere, PostedDesc, 2, 1),
    Queries(Where(<<>>), PostedDesc, 2, 1),
    Queries(Where(RoleIs("admin")), <<>>, Undefined, Undefined),
    Queries(Where(AdminOrUser), <<>>, Undefined, Undefined),
    Queries(WhereAny(<<RoleIs("user"), <<Ops("posted", <<<<"$lt", 2>>>>)>>>>),
            <<<<"_createdAt", "asc">>, <<"posted", "desc">>>>, 3, Undefined),
    Queries(Where(<<>>), <<>>, 0, Undefined),
    Queries(Where(<<>>), <<<<"posted", "asc">>, <<"_id", "desc">>>>, Undefined, 2),
    Queries(Where(<<Ops("note", <<<<"$gt", 0>>>>)>>), <<>>, Undefined, Undefined),
    Queries(Where(AdminPostedTwo), <<>>, Undefined, Undefined) }

Fill(c) ==
  \E batch \in QueryBatches :
    /\ Writer(c) /\ createMany(c, Some(batch))
    /\ WriteLeft(QueryWrites) /\ IdLeft(MaxBatch)

Ask(c) == \E queries \in ManyInputs : Reader(c) /\ readMany(c, queries)

NextQuery ==
  \/ \E i \in Instances : CreateCollectionGet(i)
  \/ \E i \in Instances : CreateCollectionSet(i)
  \/ \E c \in CallIds : Fill(c)
  \/ \E c \in CallIds : Ask(c)
  \/ \E c \in CallIds : GetResolve(c)
  \/ \E c \in CallIds : SetResolve(c)

SpecQuery == Init /\ [][NextQuery]_vars

----------------------------------------------------------------------------
(* The awaiting caller on a store that may fail any get and any set *)

FailWrites == 3

FailQueries == {"_id" :> 1, "role" :> "admin"}

InvokeFail(c) ==
  \/ \E data \in {Null, Some(Ann), Some(Eve)} :
       Writer(c) /\ create(c, data) /\ WriteLeft(FailWrites) /\ IdLeft(MaxId)
  \/ \E data \in BatchInputs :
       Writer(c) /\ createMany(c, data) /\ WriteLeft(FailWrites) /\ IdLeft(MaxId)
  \/ \E query \in FailQueries :
       Writer(c) /\ update(c, query, "posted" :> 7) /\ WriteLeft(FailWrites)
  \/ \E query \in FailQueries :
       Writer(c) /\ remove(c, query) /\ WriteLeft(FailWrites)
  \/ \E query \in FailQueries : Reader(c) /\ read(c, query)
  \/ \E queries \in {NoQueries, Queries(Where(RoleIs("admin")), <<>>, 1, Undefined)} :
       Reader(c) /\ readMany(c, queries)

NextFail ==
  \/ \E i \in Instances : CreateCollectionGet(i)
  \/ \E i \in Instances : CreateCollectionSet(i)
  \/ \E i \in Instances : CreateCollectionReject(i)
  \/ \E c \in CallIds : InvokeFail(c)
  \/ \E c \in CallIds : GetResolve(c)
  \/ \E c \in CallIds : SetResolve(c)
  \/ \E c \in CallIds : GetReject(c)
  \/ \E c \in CallIds : SetReject(c)

SpecFail == Init /\ [][NextFail]_vars

----------------------------------------------------------------------------
(* Several scripts of the extension construct a Collection for "users"      *)
(* while one of them creates documents                                      *)

CtorWrites == 3

InvokeCtor(c) ==
  \/ Writer(c) /\ create(c, Some(Ann)) /\ WriteLeft(CtorWrites) /\ IdLeft(MaxId)
  \/ Reader(c) /\ read(c, "_id" :> 1)

NextCtor ==
  \/ \E i \in Instances : Construct(i)
  \/ \E i \in Instances : CreateCollectionGet(i)
  \/ \E i \in Instances : CreateCollectionSet(i)
  \/ \E c \in CallIds : InvokeCtor(c)
  \/ \E c \in CallIds : GetResolve(c)
  \/ \E c \in CallIds : SetResolve(c)

SpecCtor == Init /\ [][NextCtor]_vars

----------------------------------------------------------------------------
(* The awaiting caller on the filled collection, with the queries and the   *)
(* patches that the types of read, update and remove do not keep out at run *)
(* time                                                                     *)

PatchWrites == 1

\* {}, {_id: 2}, {role: "admin"}, {role: "admin", posted: 2}, {role: "user"},
\* {posted: "2"}, {posted: {$gt: 0}}
PatchQueries ==
  << NoQuery,
     "_id" :> 2,
     "role" :> "admin",
     ("role" :> "admin") @@ ("posted" :> 2),
     "role" :> "user",
     "posted" :> "2",
     "posted" :> ("$gt" :> 0) >>

\* {posted: 7}, {_id: 1}, {_createdAt: <a later time>}, {_updatedAt: 0},
\* {role: "guest"}
SystemPatches ==
  << "posted" :> 7,
     "_id" :> 1,
     "_createdAt" :> MaxClock + 1,
     "_updatedAt" :> 0,
     "role" :> "guest" >>

PatchWriteLeft == WriteLeft(2 + PatchWrites)

\* a write adds two documents at most
PatchIdLeft == IdLeft(2 + 2 * PatchWrites)

InvokePatch(c) ==
  \/ Writer(c) /\ create(c, Some(Bob)) /\ PatchWriteLeft /\ PatchIdLeft
  \/ Writer(c) /\ createMany(c, Some(<<Bob, Cat>>)) /\ PatchWriteLeft /\ PatchIdLeft
  \/ \E q \in 1..Len(PatchQueries), p \in 1..Len(SystemPatches) :
       Writer(c) /\ update(c, PatchQueries[q], SystemPatches[p]) /\ PatchWriteLeft
  \/ \E q \in 1..Len(PatchQueries) :
       Writer(c) /\ remove(c, PatchQueries[q]) /\ PatchWriteLeft
  \/ \E q \in 1..Len(PatchQueries) : Reader(c) /\ read(c, PatchQueries[q])
  \/ \E queries \in {NoQueries,
                      Queries(Where(<<>>), PostedDesc, Undefined, Undefined)} :
       Reader(c) /\ readMany(c, queries)

NextPatch ==
  \/ \E c \in CallIds : InvokePatch(c)
  \/ \E c \in CallIds : GetResolve(c)
  \/ \E c \in CallIds : SetResolve(c)

SpecPatch == InitRace /\ [][NextPatch]_vars

----------------------------------------------------------------------------
(* Claims *)

Done(c, op) == calls[c].pc = "done" /\ calls[c].op = op
Ok(c) == calls[c].resp.status = "ok"
IdQuery(id) == "_id" :> id
Ids(docs) == {docs[i]["_id"] : i \in 1..Len(docs)}

\* read r loaded the store exactly as call c left it: as c wrote it, or, when
\* c wrote nothing, as c loaded it
Follows(r, c) ==
  /\ calls[r].lver >= 0
  /\ calls[r].lver = (IF calls[c].wver >= 0 THEN calls[c].wver ELSE calls[c].lver)

C1_Case(c, r) ==
  /\ c # r
  /\ Done(c, "create") /\ Ok(c)
  /\ Done(r, "read")
  /\ calls[r].query = IdQuery(calls[c].resp.data[1]["_id"])
  /\ Follows(r, c)

\* C1: a create that returned a document, followed by read({_id}) of that
\* document with nothing in between, has the read return status ok, count 1
\* and a document equal to the returned one in every field
C1_CreateThenRead ==
  \A c, r \in CallIds :
    C1_Case(c, r) =>
      /\ calls[r].resp.status = "ok"
      /\ calls[r].resp.count = 1
      /\ calls[r].resp.data = calls[c].resp.data
      /\ Fields \cup {"_id", "_createdAt", "_updatedAt"}
           = DOMAIN calls[r].resp.data[1]

C1_Witness == \E c, r \in CallIds : C1_Case(c, r) /\ Ok(r)

\* what the claims call data that conforms to the schema of the collection:
\* username, role, posted and verified present, role one of admin and user
Conforms(d) ==
  /\ {"username", "role", "posted", "verified"} \subseteq DOMAIN d
  /\ d["role"] \in {"admin", "user"}

Invalid(arg) == arg = Null \/ ~Conforms(arg[1])

\* C2: a create with null data returns error / bad-request, a create with
\* data the schema rejects returns error with the validation messages, and
\* the step of such a call leaves the stored value and its version alone
C2_InvalidCreate ==
  [][\A c \in CallIds :
       ( /\ calls'[c] # calls[c]
         /\ calls'[c].op = "create"
         /\ Invalid(calls'[c].arg) )
       => /\ calls'[c].pc = "done"
          /\ calls'[c].resp = (IF calls'[c].arg = Null THEN BadRequest
                               ELSE Caught(IssueMessage))
          /\ calls'[c].resp.status = "error"
          /\ store' = store
          /\ version' = version]_vars

C2_Witness ==
  /\ store.present /\ store.docs # <<>>
  /\ \E c \in CallIds :
       /\ Done(c, "create") /\ calls[c].arg = Some(Eve)
       /\ calls[c].resp.status = "error"

BatchInvalid(arg) == arg # Null /\ \E i \in 1..Len(arg[1]) : ~Conforms(arg[1][i])

\* the documents of the batch of call record call
BatchDocs(call) == IF call.pc = "done" THEN call.resp.data ELSE call.made

\* C3: every step of a createMany call leaves the store with none or with all
\* of the documents of its batch, and a call whose array has an element the
\* schema rejects returns error at once and leaves the store alone
C3_AllOrNothing ==
  [][\A c \in CallIds :
       (calls'[c] # calls[c] /\ calls'[c].op = "createMany")
       => /\ BatchInvalid(calls'[c].arg)
               => /\ calls'[c].pc = "done"
                  /\ calls'[c].resp.status = "error"
                  /\ calls'[c].resp.data = <<>>
                  /\ store' = store
                  /\ version' = version
          /\ LET batch == Ids(BatchDocs(calls'[c])) IN
             \/ batch \cap Ids(store'.docs) = {}
             \/ batch \subseteq Ids(store'.docs)
          /\ store' # store
               => store'.docs = store.docs \o calls'[c].resp.data]_vars

C3_Witness ==
  /\ store.present /\ store.docs # <<>>
  /\ \E c \in CallIds :
       /\ Done(c, "createMany") /\ BatchInvalid(calls[c].arg)
       /\ calls[c].resp.status = "error"

\* the step in which update call c writes, nothing written since it loaded
UpdateWrites(c) ==
  /\ calls[c].pc = "set" /\ calls[c].op = "update"
  /\ calls'[c].pc = "done"
  /\ calls[c].lver = version
  /\ DOMAIN calls[c].arg[1] \subseteq Fields

\* C4: an update of a matched document with a patch of user fields sets the
\* fields of the patch to the patch values, keeps every other field but
\* _updatedAt, does not lower _updatedAt, and leaves the other documents and
\* the order of the array as they were
C4_UpdateFrame ==
  [][\A c \in CallIds :
       UpdateWrites(c) =>
         LET i == calls[c].index
             patch == calls[c].arg[1]
             old == store.docs
             new == store'.docs
         IN  /\ i \in 1..Len(old)
             /\ QueryMatch(old[i], calls[c].query)
             /\ \A j \in 1..(i - 1) : ~QueryMatch(old[j], calls[c].query)
             /\ Len(new) = Len(old)
             /\ \A j \in 1..Len(old) : j # i => new[j] = old[j]
             /\ DOMAIN new[i] = DOMAIN old[i]
             /\ \A k \in DOMAIN patch : new[i][k] = patch[k]
             /\ \A k \in DOMAIN old[i] \ (DOMAIN patch \cup {"_updatedAt"}) :
                  new[i][k] = old[i][k]
             /\ new[i]["_updatedAt"] >= old[i]["_updatedAt"]
             /\ calls'[c].resp.data = <<new[i]>>]_vars

C4_Witness ==
  \E c \in CallIds :
    /\ Done(c, "update") /\ Ok(c)
    /\ calls[c].wver = version
    /\ Len(store.docs) = 2
    /\ calls[c].resp.data[1]["_id"] = 2
    /\ calls[c].resp.data[1]["posted"] = 7
    /\ calls[c].resp.data[1]["_updatedAt"] > calls[c].resp.data[1]["_createdAt"]

\* the read is the latest store access: the array is still the one it loaded
C5_Case(c, r) ==
  /\ c # r
  /\ Done(c, "remove")
  /\ Done(r, "read")
  /\ calls[r].query = calls[c].query
  /\ Follows(r, c)
  /\ calls[r].lver = version

\* the remove found the array under the key
FoundArray(c) == Ok(c) \/ calls[c].resp.errors = "not-found"

\* C5 as claimed: whatever the stored array, a read with the query of the
\* remove before it returns error / not-found / null
C5_ReadAfterRemoveNotFound ==
  \A c, r \in CallIds :
    (C5_Case(c, r) /\ FoundArray(c)) => calls[r].resp = NotFound

\* C5 amended: after a remove that returned status ok, a read with the same
\* query never returns the removed document: it returns not-found when no
\* document left in the array matches the query, and otherwise status ok with
\* the first remaining document that matches; after a remove that returned
\* not-found the read returns not-found
C5_ReadAfterRemove ==
  \A c, r \in CallIds :
    (C5_Case(c, r) /\ FoundArray(c)) =>
      LET left == {i \in 1..Len(store.docs) :
                     QueryMatch(store.docs[i], calls[c].query)}
      IN  /\ ~Ok(c) => calls[r].resp = NotFound
          /\ left = {} <=> calls[r].resp = NotFound
          /\ left # {} =>
               /\ calls[r].resp.status = "ok"
               /\ \E i \in left :
                    /\ calls[r].resp.data = <<store.docs[i]>>
                    /\ \A j \in left : i <= j
               /\ calls[r].resp.data[1]["_id"] # calls[c].resp.data[1]["_id"]

C5_Witness ==
  \E c, r \in CallIds :
    /\ C5_Case(c, r) /\ Ok(c) /\ Ok(r)
    /\ DOMAIN calls[c].query = {"role"}

----------------------------------------------------------------------------
(* Claims about readMany *)

\* readMany call r has returned and the array is still the one it loaded
Answered(r) == Done(r, "readMany") /\ calls[r].lver = version /\ Ok(r)

\* the stored documents with a role in roles, in stored order
WithRole(roles) == SelectSeq(store.docs, LAMBDA d : d["role"] \in roles)

Posted(docs) == [i \in 1..Len(docs) |-> docs[i]["posted"]]

OnlyWhere(where) == Queries(where, <<>>, Undefined, Undefined)

\* C6 as claimed: where {role: "admin"} returns only admins, and the $or of
\* admin and user returns every stored admin and user, however many
C6_RoleUnion ==
  \A r \in CallIds :
    Answered(r) =>
      /\ calls[r].queries = OnlyWhere(Where(RoleIs("admin")))
           => \A i \in 1..Len(calls[r].resp.data) :
                calls[r].resp.data[i]["role"] = "admin"
      /\ calls[r].queries = OnlyWhere(Where(AdminOrUser))
           => calls[r].resp.data = WithRole({"admin", "user"})

\* the first n elements of a sequence
FirstN(seq, n) == SubSeq(seq, 1, IF Len(seq) < n THEN Len(seq) ELSE n)

\* C6 amended: where {role: "admin"} returns the first 10, in stored order,
\* of the documents whose role is admin, and the $or of admin and user the
\* first 10 of the documents whose role is admin or user: all of them when at
\* most 10 match
C6_RoleUnionFirstTen ==
  \A r \in CallIds :
    Answered(r) =>
      /\ calls[r].queries = OnlyWhere(Where(RoleIs("admin")))
           => /\ calls[r].resp.data = FirstN(WithRole({"admin"}), 10)
              /\ calls[r].resp.count = Len(calls[r].resp.data)
      /\ calls[r].queries = OnlyWhere(Where(AdminOrUser))
           => /\ calls[r].resp.data = FirstN(WithRole({"admin", "user"}), 10)
              /\ calls[r].resp.count = Len(calls[r].resp.data)

C6_Witness ==
  \E r \in CallIds :
    /\ Answered(r)
    /\ calls[r].queries = OnlyWhere(Where(AdminOrUser))
    /\ Len(WithRole({"admin", "user"})) > 10
    /\ Len(WithRole({"admin"})) < Len(store.docs)
    /\ calls[r].resp.count = 10

\* the documents were created with posted 1, 3, 2 in this order
Posted132 == store.present /\ Posted(store.docs) = <<1, 3, 2>>

\* C7 as claimed: orderBy posted desc, limit 2, skip 1 and no where returns
\* the documents with posted 2 and 1
C7_OrderedPage ==
  \A r \in CallIds :
    (Answered(r) /\ Posted132
       /\ calls[r].queries = Queries(NoWhere, PostedDesc, 2, 1))
    => /\ Posted(calls[r].resp.data) = <<2, 1>>
       /\ calls[r].resp.count = 2

\* C7 amended: with a where that every document satisfies (where: {}) the
\* call returns the documents with posted 2 and 1; with where omitted it
\* returns the three documents in stored order, posted 1, 3, 2
C7_OrderedPageWithWhere ==
  \A r \in CallIds :
    (Answered(r) /\ Posted132) =>
      /\ calls[r].queries = Queries(Where(<<>>), PostedDesc, 2, 1)
           => /\ Posted(calls[r].resp.data) = <<2, 1>>
              /\ calls[r].resp.count = 2
              /\ calls[r].resp.data = <<store.docs[3], store.docs[1]>>
      /\ calls[r].queries = Queries(NoWhere, PostedDesc, 2, 1)
           => /\ Posted(calls[r].resp.data) = <<1, 3, 2>>
              /\ calls[r].resp.count = 3

C7_Witness ==
  \E r \in CallIds :
    /\ Answered(r) /\ Posted132
    /\ calls[r].queries = Queries(Where(<<>>), PostedDesc, 2, 1)

\* C8: without a where, readMany returns the stored array as it is, in
\* stored order, with count its length, whatever orderBy, limit and skip say
C8_NoWhereReturnsAll ==
  \A r \in CallIds :
    (Done(r, "readMany") /\ calls[r].lver = version /\ store.present
       /\ calls[r].queries.where = NoWhere)
    => /\ calls[r].resp.status = "ok"
       /\ calls[r].resp.data = store.docs
       /\ calls[r].resp.count = Len(store.docs)

C8_Witness ==
  \E r \in CallIds :
    /\ Answered(r)
    /\ calls[r].queries = Queries(NoWhere, PostedDesc, 2, 1)
    /\ Len(store.docs) > 2
    /\ \E i \in 1..(Len(store.docs) - 1) :
         store.docs[i]["posted"] < store.docs[i + 1]["posted"]

----------------------------------------------------------------------------
(* Claims about calls that overlap *)

\* the stored document with the _id of the one update call c returned
\* carries the patch of c
Patched(c) ==
  \E i \in 1..Len(store.docs) :
    /\ store.docs[i]["_id"] = calls[c].resp.data[1]["_id"]
    /\ \A k \in DOMAIN calls[c].arg[1] : store.docs[i][k] = calls[c].arg[1][k]

\* two updates that returned ok for two different documents, nothing
\* written after them
TwoUpdates(a, b) ==
  /\ a # b
  /\ Done(a, "update") /\ Ok(a)
  /\ Done(b, "update") /\ Ok(b)
  /\ calls[a].resp.data[1]["_id"] # calls[b].resp.data[1]["_id"]
  /\ calls[a].wver < calls[b].wver
  /\ calls[b].wver = version

\* C9 as claimed: however the two calls interleave, both patches are stored
\* once both have returned ok
C9_BothPersist ==
  \A a, b \in CallIds : TwoUpdates(a, b) => Patched(a) /\ Patched(b)

\* C9 amended: both patches are stored if the calls do not overlap, the
\* second one loading the array as the first one wrote it
C9_BothPersistInSequence ==
  \A a, b \in CallIds :
    (TwoUpdates(a, b) /\ calls[b].lver = calls[a].wver)
    => Patched(a) /\ Patched(b)

C9_Witness ==
  \E a, b \in CallIds :
    /\ TwoUpdates(a, b) /\ calls[b].lver = calls[a].wver
    /\ calls[a].arg # calls[b].arg

\* new is old after the change call makes to the array it loaded
EffectOn(call, old, new) ==
  CASE call.op \in {"create", "createMany"} -> new = old \o call.made
    [] call.op = "update" ->
         /\ Len(new) = Len(old)
         /\ \A j \in 1..Len(old) : j # call.index => new[j] = old[j]
         /\ \A k \in DOMAIN call.arg[1] : new[call.index][k] = call.arg[1][k]
         /\ new[call.index]["_id"] = old[call.index]["_id"]
    [] call.op = "remove" ->
         /\ Len(new) = Len(old) - 1
         /\ \A j \in 1..Len(new) :
              new[j] = IF j < call.index THEN old[j] ELSE old[j + 1]

\* what call record done, returned ok, did is to be seen in the array docs
EffectIn(done, docs) ==
  CASE done.op \in {"create", "createMany", "update"} ->
         \A i \in 1..Len(done.resp.data) :
           \E j \in 1..Len(docs) : docs[j] = done.resp.data[i]
    [] done.op = "remove" -> done.resp.data[1]["_id"] \notin Ids(docs)

\* the step in which call b writes while the mutating call a has returned ok
LaterWrite(a, b) ==
  /\ a # b
  /\ calls[b].pc = "set" /\ calls'[b].pc = "done"
  /\ calls[a].pc = "done" /\ calls[a].op \in Mutating
  /\ calls[a].resp.status = "ok"

\* C10: when call b loaded the array before the call a wrote it and writes
\* after a, the stored array after b's write is the array b wrote, which is
\* the array b loaded with b's change only: the write of a is gone, a
\* document a created is not stored, though a returned ok.  When b loaded the
\* array as a wrote it, the change of a is in the array b loaded and the
\* stored array after b's write is that array with b's change.
C10_LastWriterWins ==
  [][\A a, b \in CallIds :
       LaterWrite(a, b) =>
         /\ store'.docs = calls[b].local
         /\ calls'[b].resp.status = "ok"
         /\ EffectOn(calls[b], calls[b].loaded.docs, store'.docs)
         /\ (calls[b].lver < calls[a].wver
               /\ calls[a].op \in {"create", "createMany"})
              => Ids(calls[a].resp.data) \cap Ids(store'.docs) = {}
         /\ calls[b].lver = calls[a].wver =>
              EffectIn(calls[a], calls[b].loaded.docs)]_vars

C10_Witness ==
  \E a, b \in CallIds :
    /\ a # b
    /\ Done(a, "create") /\ Ok(a)
    /\ Done(b, "update") /\ Ok(b)
    /\ calls[b].lver < calls[a].wver
    /\ calls[a].wver < calls[b].wver
    /\ calls[b].wver = version
    /\ calls[a].resp.data[1]["_id"] \notin Ids(store.docs)

----------------------------------------------------------------------------
(* Calls of all six operations issued by two scripts without awaiting, on   *)
(* the filled collection, against a store that answers every get and every  *)
(* set, with a value or with lastError                                      *)

LiveWrites == 2

LiveWriteLeft == WriteLeft(2 + LiveWrites)
LiveIdLeft == IdLeft(2 + LiveWrites)

\* the filled collection of InitRace some time later: the clock has reached
\* MaxClock while no call was in flight
InitLive ==
  /\ store = Stored(Filled)
  /\ version = 2
  /\ calls = [c \in CallIds |->
                IF c = 1
                THEN [Return(Begin("createMany", Some(<<Ann, Cat>>), NoQuery,
                                   NoQueries),
                             Resp(Filled, 2, "ok", "",
                                  "Documents created successfully."))
                        EXCEPT !.lver = 1, !.wver = 2]
                ELSE IdleCall]
  /\ ctor = [i \in Instances |-> IF i = 1 THEN "done" ELSE "none"]
  /\ now = MaxClock
  /\ nextId = 3

\* two scripts that do not wait for each other: one issues create, update
\* and readMany, the other createMany, remove and read
First(c) == c = Min(1, MaxCalls)
Last(c) == c = MaxCalls

InvokeLive(c) ==
  \/ \E data \in {Some(Ann)} :
       First(c) /\ create(c, data) /\ LiveWriteLeft /\ LiveIdLeft
  \/ \E query \in RaceRemoves :
       First(c) /\ update(c, query, "posted" :> 7) /\ LiveWriteLeft
  \/ \E queries \in {NoQueries} : First(c) /\ readMany(c, queries)
  \/ \E data \in {Some(<<Cat>>)} :
       Last(c) /\ createMany(c, data) /\ LiveWriteLeft /\ LiveIdLeft
  \/ \E query \in RaceRemoves : Last(c) /\ remove(c, query) /\ LiveWriteLeft
  \/ \E query \in RaceRemoves : Last(c) /\ read(c, query)

NextLive ==
  \/ \E c \in CallIds : InvokeLive(c)
  \/ \E c \in CallIds : GetResolve(c)
  \/ \E c \in CallIds : SetResolve(c)
  \/ \E c \in CallIds : GetReject(c)
  \/ \E c \in CallIds : SetReject(c)

\* chrome.storage.local calls back for every get and every set it was given
StoreAnswers ==
  \A c \in CallIds :
    /\ WF_vars(GetResolve(c) \/ GetReject(c))
    /\ WF_vars(SetResolve(c) \/ SetReject(c))

SpecLive == InitLive /\ [][NextLive]_vars /\ StoreAnswers

----------------------------------------------------------------------------
(* Claims about failures and responses *)

\* the step in which call c returns
Returns(c) == calls'[c] # calls[c] /\ calls'[c].pc = "done"

\* the get of call c has failed: it returns from its first await with
\* nothing loaded
GetFailed(c) == calls[c].pc = "get" /\ calls'[c].pc = "done" /\ calls'[c].lver < 0

\* the set of call c has failed: it returns from its second await with
\* nothing written
SetFailed(c) == calls[c].pc = "set" /\ calls'[c].pc = "done" /\ calls'[c].wver < 0

\* C11: every call of create, read, update, remove, createMany and readMany
\* ends with a response whose status is ok or error, never with an exception;
\* when its get or its set fails or the schema rejects its data the response
\* has status error and a message; the step of a failed set leaves the
\* stored value alone, and it is the value the call loaded when nothing was
\* written since
C11_NoThrow ==
  [][\A c \in CallIds :
       Returns(c) =>
         /\ calls'[c].resp.status \in {"ok", "error"}
         /\ ( \/ GetFailed(c)
              \/ SetFailed(c)
              \/ calls'[c].op = "create" /\ calls'[c].arg # Null
                   /\ ~Conforms(calls'[c].arg[1])
              \/ calls'[c].op = "createMany" /\ BatchInvalid(calls'[c].arg) )
             => /\ calls'[c].resp.status = "error"
                /\ calls'[c].resp.message # ""
                /\ calls'[c].resp.data = <<>>
         /\ SetFailed(c) =>
              /\ store' = store
              /\ calls[c].lver = version => store = calls[c].loaded]_vars

C11_Witness ==
  \E c \in CallIds :
    /\ Done(c, "update")
    /\ calls[c].lver = version /\ calls[c].wver < 0
    /\ calls[c].resp = [data |-> <<>>, count |-> -1, status |-> "error",
                        errors |-> "", message |-> "lastError"]
    /\ Len(store.docs) = 2
    /\ \A i \in 1..2 : store.docs[i]["posted"] # 7

\* C16: the response of every call has status ok or error and errors, when
\* present, bad-request or not-found; not-found comes from read, update and
\* remove only and when no stored document matches the query, bad-request
\* from create and createMany only and when data is missing
C16_StatusAndErrors ==
  \A c \in CallIds :
    calls[c].pc = "done" =>
      /\ calls[c].resp.status \in {"ok", "error"}
      /\ calls[c].resp.errors \in {"", "bad-request", "not-found"}
      /\ calls[c].resp.errors # "" => calls[c].resp.status = "error"
      /\ calls[c].resp.errors = "not-found" =>
           /\ calls[c].op \in {"read", "update", "remove"}
           /\ calls[c].lver >= 0
           /\ calls[c].lver = version =>
                \A i \in 1..Len(store.docs) :
                  \E k \in DOMAIN calls[c].query :
                    store.docs[i][k] # calls[c].query[k]
      /\ calls[c].resp.errors = "bad-request" =>
           /\ calls[c].op \in {"create", "createMany"}
           /\ calls[c].arg = Null

C16_Witness ==
  \E c, r \in CallIds :
    /\ Done(c, "remove") /\ Ok(c)
    /\ Done(r, "read") /\ calls[r].resp.errors = "not-found"
    /\ calls[r].lver = version
    /\ store.docs # <<>>

----------------------------------------------------------------------------
(* Claims about construction *)

\* C12: once the Collection is constructed the value under its key is an
\* array in every state, also before createCollection has completed and
\* during a call issued in that time
C12_AlwaysArray == store.present

\* C13: no step of a construction changes an array that is stored under the
\* key, however the get and the set of createCollection interleave with
\* other constructions and with the calls of other instances
C13_NeverOverwrites ==
  [][\A i \in Instances :
       (ctor'[i] # ctor[i] /\ store.present) => store' = store]_vars

----------------------------------------------------------------------------
(* Claims about the system fields *)

Unique(docs) ==
  \A i, j \in 1..Len(docs) : i # j => docs[i]["_id"] # docs[j]["_id"]

\* C14: no two stored documents have the same _id, and a step that leaves
\* the number of stored documents as it was (an update) leaves the _id of
\* every one of them as it was, whatever the patch
C14_IdUniqueImmutable ==
  [][/\ Unique(store'.docs)
     /\ Len(store'.docs) = Len(store.docs)
          => \A i \in 1..Len(store.docs) :
               store'.docs[i]["_id"] = store.docs[i]["_id"]]_vars

\* C15: every stored document has _updatedAt >= _createdAt, whatever the
\* patches of the updates
C15_UpdatedNotBeforeCreated ==
  \A i \in 1..Len(store.docs) :
    store.docs[i]["_updatedAt"] >= store.docs[i]["_createdAt"]

----------------------------------------------------------------------------
(* Claims about one call on an array nobody else writes *)

\* every field of the query is a field of the document with the same value
\* of the same type
FieldsEqual(doc, query) ==
  \A k \in DOMAIN query :
    k \in DOMAIN doc /\ ToString(doc[k]) = ToString(query[k])

\* the positions of the stored documents that the query selects
Selected(query) ==
  {i \in 1..Len(store.docs) : FieldsEqual(store.docs[i], query)}

\* the step in which the get of call c resolves with the stored array
Loads(c, ops) ==
  /\ calls[c].pc = "get" /\ calls[c].op \in ops
  /\ calls'[c] # calls[c]
  /\ store.present

\* C17: read returns ok, count 1 and the first stored document whose fields
\* equal all the fields of the query, and error / not-found / null exactly
\* when there is none; {posted: {$gt: 0}} and {posted: "2"} select nothing;
\* update and remove go on with the same first document, or return
\* not-found
C17_FirstStrictMatch ==
  [][\A c \in CallIds :
       Loads(c, {"read", "update", "remove"}) =>
         LET hits == Selected(calls[c].query)
             first == CHOOSE i \in hits : \A j \in hits : i <= j
         IN  /\ hits = {} <=>
                  /\ calls'[c].pc = "done"
                  /\ calls'[c].resp.status = "error"
                  /\ calls'[c].resp.errors = "not-found"
                  /\ calls'[c].resp.data = <<>>
             /\ (hits # {} /\ calls[c].op = "read") =>
                  /\ calls'[c].pc = "done"
                  /\ calls'[c].resp.status = "ok"
                  /\ calls'[c].resp.count = 1
                  /\ calls'[c].resp.data = <<store.docs[first]>>
             /\ (hits # {} /\ calls[c].op # "read") =>
                  /\ calls'[c].pc = "set"
                  /\ calls'[c].index = first
             /\ DOMAIN calls[c].query = {"posted"} => hits = {}]_vars

C17_Witness ==
  /\ Len(store.docs) = 2
  /\ store.docs[1]["role"] = "admin" /\ store.docs[1]["posted"] = 1
  /\ store.docs[2]["role"] = "admin" /\ store.docs[2]["posted"] = 2
  /\ \E c, r \in CallIds :
       /\ Done(c, "update") /\ DOMAIN calls[c].query = {"posted"}
       /\ calls[c].resp.errors = "not-found"
       /\ Done(r, "read") /\ DOMAIN calls[r].query = {"role", "posted"}
       /\ Ok(r) /\ calls[r].resp.data = <<store.docs[2]>>

\* the step in which the set of call c resolves, nothing written since the
\* call loaded the array
Writes(c, op) ==
  /\ calls[c].pc = "set" /\ calls[c].op = op
  /\ calls'[c].pc = "done" /\ calls'[c].resp.status = "ok"
  /\ calls[c].lver = version

System == {"_id", "_createdAt", "_updatedAt"}

\* C18: a create that returns ok leaves the stored array as it was with the
\* new document behind the last element; the document has the fields of the
\* data, an _id no stored document had and _createdAt = _updatedAt; the
\* response has count 1 and the document as data
C18_CreateAppends ==
  [][\A c \in CallIds :
       Writes(c, "create") =>
         LET doc == calls'[c].resp.data[1] IN
         /\ store'.docs = store.docs \o <<doc>>
         /\ DOMAIN doc = {"username", "role", "posted", "verified"} \cup System
         /\ \A k \in DOMAIN doc \ System : doc[k] = calls[c].arg[1][k]
         /\ doc["_id"] \notin Ids(store.docs)
         /\ doc["_createdAt"] = doc["_updatedAt"]
         /\ calls'[c].resp.count = 1
         /\ Len(calls'[c].resp.data) = 1]_vars

C18_Witness ==
  \E c \in CallIds :
    /\ Done(c, "create") /\ Ok(c) /\ calls[c].wver = version
    /\ Len(store.docs) = 2
    /\ store.docs[2] = calls[c].resp.data[1]
    /\ store.docs[2]["_createdAt"] > store.docs[1]["_createdAt"]

\* C19: a createMany that returns ok leaves the stored array as it was with
\* the documents of the batch behind it in the order of the input, in the one
\* write of the call; the documents have the fields of the inputs, _ids that
\* differ from each other and from the stored ones, and one common value for
\* _createdAt and _updatedAt; the response has them as data and their number
\* as count
C19_CreateManyAppends ==
  [][\A c \in CallIds :
       Writes(c, "createMany") =>
         LET made == calls'[c].resp.data
             batch == calls[c].arg[1]
         IN  /\ store'.docs = store.docs \o made
             /\ version' = version + 1 /\ calls[c].wver < 0
             /\ Len(made) = Len(batch)
             /\ calls'[c].resp.count = Len(batch)
             /\ \A i \in 1..Len(batch) :
                  /\ DOMAIN made[i] =
                       {"username", "role", "posted", "verified"} \cup System
                  /\ \A k \in DOMAIN made[i] \ System : made[i][k] = batch[i][k]
                  /\ made[i]["_id"] \notin Ids(store.docs)
                  /\ made[i]["_createdAt"] = made[1]["_createdAt"]
                  /\ made[i]["_updatedAt"] = made[1]["_createdAt"]
             /\ Unique(made)]_vars

C19_Witness ==
  \E c \in CallIds :
    /\ Done(c, "createMany") /\ Ok(c)
    /\ calls[c].wver = version /\ calls[c].lver = version - 1
    /\ Len(calls[c].resp.data) = 2
    /\ Len(store.docs) = 4
    /\ store.docs[3]["username"] = "bob" /\ store.docs[4]["username"] = "cat"
    /\ store.docs[3]["_createdAt"] > store.docs[2]["_createdAt"]

\* C20: a remove that returns ok takes the first stored document that the
\* query selects out of the array and nothing else: the documents before it
\* and behind it, those that the query selects too, stay as they were and in
\* their order; the response data is the document taken out
C20_RemoveFirstOnly ==
  [][\A c \in CallIds :
       Writes(c, "remove") =>
         LET hits == Selected(calls[c].query)
             first == CHOOSE i \in hits : \A j \in hits : i <= j
         IN  /\ hits # {}
             /\ Len(store'.docs) = Len(store.docs) - 1
             /\ \A j \in 1..Len(store'.docs) :
                  store'.docs[j] = store.docs[IF j < first THEN j ELSE j + 1]
             /\ calls'[c].resp.data = <<store.docs[first]>>]_vars

C20_Witness ==
  \E c \in CallIds :
    /\ Done(c, "remove") /\ Ok(c) /\ calls[c].wver = version
    /\ DOMAIN calls[c].query = {"role"}
    /\ calls[c].resp.data[1]["_id"] = 1
    /\ Len(store.docs) = 1
    /\ store.docs[1]["_id"] = 2
    /\ store.docs[1]["role"] = calls[c].resp.data[1]["role"]

----------------------------------------------------------------------------
(* Claims about what a call does to the store *)

\* C21: no step of a read or a readMany, with or without where and orderBy,
\* changes the stored value or writes to the store; an update or a remove
\* whose query selects no stored document returns not-found from its get
\* and neither changes the stored value nor writes
C21_ReadOnly ==
  [][\A c \in CallIds :
       calls'[c].pc # calls[c].pc =>
         /\ calls'[c].op \in {"read", "readMany"} =>
              /\ store' = store
              /\ version' = version
              /\ calls'[c].pc \in {"get", "done"}
              /\ calls'[c].wver < 0
         /\ (Loads(c, {"update", "remove"}) /\ Selected(calls[c].query) = {}) =>
              /\ calls'[c].pc = "done"
              /\ calls'[c].resp.errors = "not-found"
              /\ calls'[c].wver < 0
              /\ store' = store
              /\ version' = version]_vars

C21_Witness ==
  \E c, r \in CallIds :
    /\ Done(c, "update") /\ calls[c].resp.errors = "not-found"
    /\ Done(r, "readMany") /\ Ok(r)
    /\ calls[r].queries.orderBy # <<>> /\ calls[r].queries.where # NoWhere
    /\ calls[r].lver = version
    /\ Len(store.docs) = 2
    /\ calls[r].resp.data = <<store.docs[2], store.docs[1]>>

----------------------------------------------------------------------------
(* Claims about the page, the order and the selection of readMany *)

\* the list readMany cuts its page from
Listed(queries) ==
  IF queries.orderBy # <<>>
  THEN SortBy(Filter(store.docs, queries.where.conds), queries.orderBy)
  ELSE Filter(store.docs, queries.where.conds)

\* C22: with where present readMany returns the elements of the filtered and
\* sorted list at the positions skip to skip + limit, skip 0 and limit 10
\* standing in only for an omitted skip or limit, so that count <= limit for
\* every limit the caller gives, 0 too
C22_PageOfFilteredSorted ==
  \A r \in CallIds :
    (Answered(r) /\ calls[r].queries.where # NoWhere) =>
      LET q == calls[r].queries
          skip == IF q.skip = Undefined THEN 0 ELSE q.skip
          limit == IF q.limit = Undefined THEN 10 ELSE q.limit
          list == Listed(q)
          last == IF skip + limit < Len(list) THEN skip + limit ELSE Len(list)
      IN  /\ calls[r].resp.data = SubSeq(list, skip + 1, last)
          /\ calls[r].resp.count = Len(calls[r].resp.data)
          /\ calls[r].resp.count <= limit

\* the first key of orderBy on which a and b differ, 0 if there is none
FirstDiffering(a, b, orderBy) ==
  LET differ == {n \in 1..Len(orderBy) : a[orderBy[n][1]] # b[orderBy[n][1]]}
  IN  IF differ = {} THEN 0 ELSE CHOOSE n \in differ : \A m \in differ : n <= m

\* a comes before b under orderBy; the documents were stored in the order of
\* their _ids
InOrder(a, b, orderBy) ==
  LET n == FirstDiffering(a, b, orderBy) IN
  IF n = 0 THEN a["_id"] < b["_id"]
  ELSE IF orderBy[n][2] = "asc" THEN a[orderBy[n][1]] < b[orderBy[n][1]]
  ELSE a[orderBy[n][1]] > b[orderBy[n][1]]

\* C23: with where and orderBy, of any two returned documents the one in
\* front is smaller (asc) or larger (desc) on the first orderBy key on which
\* they differ, or was stored before the other if they differ on none; and
\* the page starts with the documents that come first in this order
C23_StableSort ==
  \A r \in CallIds :
    (Answered(r) /\ calls[r].queries.where # NoWhere
       /\ calls[r].queries.orderBy # <<>>) =>
      LET data == calls[r].resp.data
          orderBy == calls[r].queries.orderBy
          skip == IF calls[r].queries.skip = Undefined THEN 0
                  ELSE calls[r].queries.skip
          selected == Filter(store.docs, calls[r].queries.where.conds)
      IN  /\ \A i, j \in 1..Len(data) :
               i < j => InOrder(data[i], data[j], orderBy)
          /\ \A i \in 1..Len(data) :
               Cardinality({n \in 1..Len(selected) :
                              InOrder(selected[n], data[i], orderBy)})
                 = skip + i - 1

C23_Witness ==
  \E r \in CallIds :
    /\ Answered(r)
    /\ calls[r].queries.orderBy = <<<<"posted", "asc">>, <<"_id", "desc">>>>
    /\ Len(calls[r].resp.data) > 2
    /\ calls[r].resp.data[1]["posted"] = calls[r].resp.data[2]["posted"]
    /\ calls[r].resp.data[1]["_id"] > calls[r].resp.data[2]["_id"]
    /\ \E i \in 3..Len(calls[r].resp.data) :
         /\ calls[r].resp.data[2]["posted"] < calls[r].resp.data[i]["posted"]
         /\ calls[r].resp.data[2]["_id"] < calls[r].resp.data[i]["_id"]

\* what one operator of an operator object means
RefOperator(document, field, operator, value) ==
  /\ field \in DOMAIN document
  /\ CASE operator = "$gt" -> document[field] > value
       [] operator = "$lt" -> document[field] < value
       [] operator = "$eq" -> document[field] = value

\* the reference predicate: every entry of the condition holds
RECURSIVE RefMatch(_, _)
RefMatch(document, condition) ==
  \A e \in 1..Len(condition) :
    LET entry == condition[e] IN
    CASE entry.field = "$or" ->
           \E i \in 1..Len(entry.conds) : RefMatch(document, entry.conds[i])
      [] entry.field = "$and" ->
           \A i \in 1..Len(entry.conds) : RefMatch(document, entry.conds[i])
      [] entry.field = "$not" ->
           \A i \in 1..Len(entry.conds) : ~RefMatch(document, entry.conds[i])
      [] entry.kind = "ops" ->
           \A o \in 1..Len(entry.ops) :
             RefOperator(document, entry.field, entry.ops[o][1], entry.ops[o][2])
      [] OTHER ->
           entry.field \in DOMAIN document /\ document[entry.field] = entry.value

\* the stored documents that satisfy at least one condition of where
RefSelected(where) ==
  SelectSeq(store.docs,
            LAMBDA d : \E i \in 1..Len(where.conds) : RefMatch(d, where.conds[i]))

\* C24: readMany with a where and nothing else returns the stored documents
\* that the reference predicate selects (the first 10 of them): plain value
\* is equality, $gt is field > v, $lt is field < v, $eq is field = v, $or
\* some, $and all, $not none of the listed conditions
C24_ReferencePredicate ==
  \A r \in CallIds :
    (Answered(r) /\ calls[r].queries.where # NoWhere
       /\ calls[r].queries = OnlyWhere(calls[r].queries.where)) =>
      calls[r].resp.data = FirstN(RefSelected(calls[r].queries.where), 10)

----------------------------------------------------------------------------
(* Claims about update and the schema *)

AllConform(docs) == \A i \in 1..Len(docs) : Conforms(docs[i])

\* the step in which the set of update call c resolves and stores, nothing
\* written since the call loaded the array
UpdateStores(c) ==
  /\ calls[c].pc = "set" /\ calls[c].op = "update"
  /\ calls'[c].pc = "done" /\ calls'[c].wver >= 0
  /\ calls[c].lver = version

\* C25: an update of a matched document returns ok and stores the document
\* with the fields of the patch, whether or not the schema accepts them; a
\* step after which a stored document does not conform to the schema while
\* all did before is the write of an update
C25_UpdateUnchecked ==
  [][/\ \A c \in CallIds :
          UpdateStores(c) =>
            LET patch == calls[c].arg[1]
                new == store'.docs[calls[c].index]
            IN  /\ calls'[c].resp.status = "ok"
                /\ calls'[c].resp.data = <<new>>
                /\ \A k \in DOMAIN patch \ {"_updatedAt"} : new[k] = patch[k]
     /\ (AllConform(store.docs) /\ ~AllConform(store'.docs)) =>
          \E c \in CallIds : UpdateStores(c)]_vars

C25_Witness ==
  \E c \in CallIds :
    /\ Done(c, "update") /\ Ok(c) /\ calls[c].wver = version
    /\ calls[c].arg = Some("role" :> "guest")
    /\ ~AllConform(store.docs)
    /\ Len(store.docs) = 2

----------------------------------------------------------------------------
(* Claims about the store accesses of one call *)

\* C26: a call of a mutating operation waits for its get (pc "get"), then
\* for its set (pc "set"), then has returned.  From "get" it moves to "set"
\* only in the step in which the store has answered the get with a value,
\* and that step writes nothing; otherwise it returns without a write (a
\* failed get is followed by no set).  From "set" it moves only to its
\* return, never back to a get and never to a second set (a failed set is
\* followed by no further access).  The stored value changes only in the
\* step that answers the one set of a mutating call or the set of
\* createCollection.
C26_OneReadOneWrite ==
  [][/\ \A c \in CallIds :
          /\ (calls[c].pc = "get" /\ calls'[c].pc # "get") =>
                /\ calls'[c].pc \in {"set", "done"}
                /\ calls'[c].wver < 0
                /\ calls'[c].pc = "set" =>
                      /\ calls[c].op \in Mutating
                      /\ calls'[c].lver = version
                      /\ store' = store /\ version' = version
                /\ GetFailed(c) => store' = store /\ version' = version
          /\ (calls[c].pc = "get" /\ calls'[c].pc = "get") =>
                calls'[c].lver = calls[c].lver
          /\ calls[c].pc = "set" =>
                /\ calls'[c].pc \in {"set", "done"}
                /\ calls'[c].pc = "set" =>
                      /\ calls'[c].lver = calls[c].lver
                      /\ calls'[c].wver = calls[c].wver
                /\ SetFailed(c) => version' = version
     /\ version' # version =>
          \/ \E c \in CallIds :
               /\ calls[c].pc = "set" /\ calls'[c].pc = "done"
               /\ calls[c].op \in Mutating
               /\ calls[c].lver >= 0
               /\ calls'[c].wver = version'
          \/ \E i \in Instances : ctor[i] = "set" /\ ctor'[i] = "done"]_vars

C26_Witness ==
  \E c \in CallIds :
    /\ calls[c].pc = "done" /\ calls[c].op \in {"update", "remove"}
    /\ calls[c].lver < 0 /\ calls[c].wver < 0
    /\ calls[c].resp.status = "error"
    /\ calls[c].resp.message = LastErrorMessage
    /\ store.present /\ Len(store.docs) > 0

----------------------------------------------------------------------------
(* Claims about termination *)

\* C27: when the store answers every get and every set, a call that waits
\* for its get or its set eventually has returned a response whose status is
\* ok or error, whatever other calls are in flight
C27_EventuallyReturns ==
  \A c \in CallIds :
    (calls[c].pc \in {"get", "set"}) ~>
      (calls[c].pc = "done" /\ calls[c].resp.status \in {"ok", "error"})

\* two mutating calls that loaded the same array have both written and
\* returned
C27_Witness ==
  \E c, d \in CallIds :
    /\ c # d
    /\ calls[c].pc = "done" /\ calls[d].pc = "done"
    /\ calls[c].op \in Mutating /\ calls[d].op \in Mutating
    /\ calls[c].lver = calls[d].lver /\ calls[c].lver >= 2
    /\ calls[c].wver = calls[c].lver + 1
    /\ calls[d].wver = calls[c].lver + 2

----------------------------------------------------------------------------
(* Claims about a key that holds no array *)

\* C28: the step in which the get of a call resolves while no array is
\* stored under the key makes the call return status error with a message
\* and no errors code (not not-found, whatever the operation), without a
\* write: the stored value stays as it was, still no array, and no
\* document is stored
C28_AbsentKey ==
  [][\A c \in CallIds :
       (/\ calls[c].pc = "get" /\ calls'[c].pc # "get"
        /\ calls'[c].lver >= 0
        /\ ~store.present) =>
         /\ calls'[c].pc = "done"
         /\ calls'[c].resp.status = "error"
         /\ calls'[c].resp.errors = ""
         /\ calls'[c].resp.message # ""
         /\ calls'[c].resp.data = <<>>
         /\ calls'[c].wver < 0
         /\ store' = store /\ version' = version
         /\ ~store'.present /\ store'.docs = <<>>]_vars

\* create(ann) has returned its error while the key still holds no array
C28_Witness ==
  \E c \in CallIds :
    /\ Done(c, "create") /\ calls[c].arg = Some(Ann)
    /\ calls[c].lver >= 0 /\ calls[c].wver < 0
    /\ calls[c].resp.status = "error" /\ calls[c].resp.errors = ""
    /\ calls[c].resp.message = TypeErrorMessage
    /\ ~store.present

====
